---- MODULE Spec2Model ----
(***************************************************************************)
(* A model of src/src/fetch.cpp: one request handled by FetchWorker (a     *)
(* Napi::AsyncWorker).  Two threads act on it: the caller's JavaScript     *)
(* thread (StartFetch, the abort function, the thread-safe-function        *)
(* callbacks, OnOK / OnError and the worker's destruction) and one pool    *)
(* thread (Execute, with the three libcurl sinks called from inside        *)
(* curl_easy_perform).                                                     *)
(*                                                                         *)
(* Text is modelled as sequences of one-character strings, so that trim,   *)
(* lower and the status-line parse are computed as the code computes them. *)
(*                                                                         *)
(* Spec follows one request through StartFetch, Execute and completion.    *)
(* SpecHdr feeds header lines to the accumulator, SpecReq builds the       *)
(* request (caller headers, multipart body, header list) from the options, *)
(* SpecLife follows the process-wide state over several requests and the   *)
(* environment's shutdown.                                                 *)
(***************************************************************************)
EXTENDS Integers, Sequences, FiniteSets, TLC

(***************************************************************************)
(* Bounds of the model.                                                    *)
(***************************************************************************)
\* the largest response body, in bytes, the server sends
MaxResp == 2
\* the largest maxBodySize option tried (besides the default -1)
MaxCap == 1
\* progress ticks the transport makes during one transfer
MaxTicks == 1
\* header lines the transport delivers during one transfer (Spec)
MaxHdrMain == 1
\* header lines fed to the accumulator (SpecHdr)
MaxHeaderLines == 4
\* requests submitted during the life of the process (SpecLife)
NumReq == 2
\* headers in the caller's headers option (SpecReq)
MaxHdrOpts == 2
\* fields in the caller's formData option (SpecReq)
MaxFields == 2

VARIABLES
  main,          \* the JavaScript thread's position in StartFetch
  pc,            \* the worker's position (Queue, Execute, completion)
  streaming_,    \* FetchWorker::streaming_
  wantProgress_, \* FetchWorker::wantProgress_
  maxBodySize_,  \* FetchWorker::maxBodySize_
  abort_,        \* FetchWorker::abort_, the cancellation token
  resp_,         \* FetchWorker::resp_ : body, headers, status, statusText
  downloaded_,   \* FetchWorker::downloaded_
  chunk,         \* writeBody's argument while an invocation is in progress
  rc,            \* the CURLcode curl_easy_perform returned
  error,         \* the message AsyncWorker keeps of what Execute threw
  net,           \* the transport: bytes to come, bytes handed over, budgets
  tsfnData_,     \* queue of tsfnData_ : chunks not yet delivered
  tsfnProg_,     \* queue of tsfnProg_ : progress records not yet delivered
  deferred_,     \* FetchWorker::deferred_ : the promise and how it was settled
  seen,          \* what the caller has observed, in order
  hist,          \* history: what the worker produced and what the sinks saw
  glob,          \* process-wide state: once flags, g_share, cleanup hooks
  wk,            \* the workers of SpecLife, one per request
  req            \* SpecReq: the options and what the worker derives from them

vars == << main, pc, streaming_, wantProgress_, maxBodySize_, abort_, resp_,
           downloaded_, chunk, rc, error, net, tsfnData_, tsfnProg_, deferred_,
           seen, hist, glob, wk, req >>

(***************************************************************************)
(* Characters and text.                                                    *)
(***************************************************************************)
Min(S) == CHOOSE x \in S : \A y \in S : x <= y
Max(S) == CHOOSE x \in S : \A y \in S : y <= x

\* std::isspace in the "C" locale, over the characters of the model
isspace(c) == c \in {" ", "\t", "\n", "\r", "\f"}

\* std::tolower over the characters of the model
tolower(c) ==
  CASE c = "A" -> "a"
    [] c = "B" -> "b"
    [] c = "C" -> "c"
    [] c = "D" -> "d"
    [] c = "E" -> "e"
    [] c = "F" -> "f"
    [] c = "G" -> "g"
    [] c = "H" -> "h"
    [] c = "I" -> "i"
    [] c = "J" -> "j"
    [] c = "K" -> "k"
    [] c = "L" -> "l"
    [] c = "M" -> "m"
    [] c = "N" -> "n"
    [] c = "O" -> "o"
    [] c = "P" -> "p"
    [] c = "Q" -> "q"
    [] c = "R" -> "r"
    [] c = "S" -> "s"
    [] c = "T" -> "t"
    [] c = "U" -> "u"
    [] c = "V" -> "v"
    [] c = "W" -> "w"
    [] c = "X" -> "x"
    [] c = "Y" -> "y"
    [] c = "Z" -> "z"
    [] OTHER -> c

\* lower(std::string)
lower(s) == [i \in 1..Len(s) |-> tolower(s[i])]

\* trim(const std::string&)
trim(s) ==
  LET n == Len(s)
      a == IF \A i \in 1..n : isspace(s[i]) THEN n
           ELSE Min({i \in 1..n : ~isspace(s[i])}) - 1
      b == IF a = n THEN a
           ELSE Max({i \in (a+1)..n : ~isspace(s[i])})
  IN  SubSeq(s, a + 1, b)

isdigit(c) == c \in {"0", "1", "2", "3", "4", "5", "6", "7", "8", "9"}

DigitVal(c) ==
  CASE c = "0" -> 0 [] c = "1" -> 1 [] c = "2" -> 2 [] c = "3" -> 3
    [] c = "4" -> 4 [] c = "5" -> 5 [] c = "6" -> 6 [] c = "7" -> 7
    [] c = "8" -> 8 [] c = "9" -> 9

\* the value of a run of decimal digits
RECURSIVE DecVal(_)
DecVal(ds) ==
  IF ds = << >> THEN 0
  ELSE 10 * DecVal(SubSeq(ds, 1, Len(ds) - 1)) + DigitVal(ds[Len(ds)])

\* first position >= p of s whose character satisfies / does not satisfy
\* isspace; Len(s) + 1 when there is none
NextSpace(s, p) ==
  IF \E i \in p..Len(s) : isspace(s[i])
  THEN Min({i \in p..Len(s) : isspace(s[i])}) ELSE Len(s) + 1
NextNonSpace(s, p) ==
  IF \E i \in p..Len(s) : ~isspace(s[i])
  THEN Min({i \in p..Len(s) : ~isspace(s[i])}) ELSE Len(s) + 1
NextNonDigit(s, p) ==
  IF \E i \in p..Len(s) : ~isdigit(s[i])
  THEN Min({i \in p..Len(s) : ~isdigit(s[i])}) ELSE Len(s) + 1

HTTP == << "H", "T", "T", "P", "/" >>

\* line.rfind("HTTP/", 0) == 0
IsStatusLine(line) == Len(line) >= 5 /\ SubSeq(line, 1, 5) = HTTP

\* the loop that pops trailing '\r' and '\n'
RECURSIVE StripEol(_)
StripEol(line) ==
  IF line # << >> /\ line[Len(line)] \in {"\r", "\n"}
  THEN StripEol(SubSeq(line, 1, Len(line) - 1))
  ELSE line

(***************************************************************************)
(* ResponseData.                                                           *)
(***************************************************************************)
\* std::map<std::string, std::vector<std::string>> : a function whose
\* domain is the set of keys present
NoHeaders == [k \in {} |-> << >>]

\* a ResponseData as constructed
NewResponseData ==
  [ body |-> << >>, headers |-> NoHeaders, status |-> 0, statusText |-> << >> ]

\* resetHop leaving the previous hop's headers in place
resetHop_Keep(r) == r

\* ResponseData::resetHop
resetHop(r) == [r EXCEPT !.headers = NoHeaders]

\* headers[key] = {val}: the value replaces what the name had
PushHeader_Overwrite(h, key, val) ==
  [k \in DOMAIN h \cup {key} |-> IF k = key THEN << val >> ELSE h[k]]

\* headers[key].push_back(val)
PushHeader(h, key, val) ==
  IF key \in DOMAIN h
  THEN [h EXCEPT ![key] = Append(@, val)]
  ELSE [k \in DOMAIN h \cup {key} |-> IF k = key THEN << val >> ELSE h[k]]

\* the istringstream part of addHeaderLine: iss >> proto; iss >> status;
\* getline(iss, rest).  An extraction on a stream that is at its end or has
\* failed leaves its target as it was; a number that cannot be parsed is 0.
ParseStatusLine(line, oldStatus) ==
  LET n  == Len(line)
      p1 == NextSpace(line, 1)                 \* end of proto
      p2 == NextNonSpace(line, p1)             \* start of the number
      sg == IF p2 <= n /\ line[p2] \in {"+", "-"} THEN p2 + 1 ELSE p2
      p3 == NextNonDigit(line, sg)             \* end of the number
      v  == DecVal(SubSeq(line, sg, p3 - 1))
  IN  IF p1 > n \/ p2 > n
      THEN [status |-> oldStatus, rest |-> << >>]    \* stream at its end
      ELSE IF p3 = sg
      THEN [status |-> 0, rest |-> << >>]            \* no digits: failbit
      ELSE [status |-> IF line[p2] = "-" THEN 0 - v ELSE v,
            rest   |-> IF p3 > n THEN << >> ELSE SubSeq(line, p3, n)]

\* addHeaderLine pushing the value whatever the key
addHeaderLine_AnyKey(r, raw) ==
  LET line == StripEol(raw) IN
  IF line = << >> THEN r
  ELSE IF IsStatusLine(line)
  THEN LET p == ParseStatusLine(line, r.status)
       IN  [resetHop(r) EXCEPT !.status = p.status, !.statusText = trim(p.rest)]
  ELSE IF ~ \E i \in 1..Len(line) : line[i] = ":" THEN r
  ELSE LET pos == Min({i \in 1..Len(line) : line[i] = ":"})
           key == lower(trim(SubSeq(line, 1, pos - 1)))
           val == trim(SubSeq(line, pos + 1, Len(line)))
       IN  [r EXCEPT !.headers = PushHeader(r.headers, key, val)]

\* ResponseData::addHeaderLine
addHeaderLine(r, raw) ==
  LET line == StripEol(raw) IN
  IF line = << >> THEN r
  ELSE IF IsStatusLine(line)
  THEN LET p == ParseStatusLine(line, r.status)
       IN  [resetHop(r) EXCEPT !.status = p.status, !.statusText = trim(p.rest)]
  ELSE IF ~ \E i \in 1..Len(line) : line[i] = ":" THEN r
  ELSE LET pos == Min({i \in 1..Len(line) : line[i] = ":"})
           key == lower(trim(SubSeq(line, 1, pos - 1)))
           val == trim(SubSeq(line, pos + 1, Len(line)))
       IN  IF key # << >>
           THEN [r EXCEPT !.headers = PushHeader(r.headers, key, val)]
           ELSE r

(***************************************************************************)
(* Header lines the transport delivers.                                    *)
(***************************************************************************)
L_302  == << "H","T","T","P","/","1",".","1"," ","3","0","2"," ","F","o","u","n","d","\r","\n" >>
L_200  == << "H","T","T","P","/","2"," ","2","0","0"," ","\r","\n" >>
L_404  == << "H","T","T","P","/","1",".","1"," ","4","0","4"," ","N","o","\r","\n" >>
L_loc  == << "L","o","c",":"," ","/","b","\r","\n" >>
L_xa   == << "X",":"," ","a","\r","\n" >>
L_xb   == << " ","x"," ",":","b"," ",":","c","\r","\n" >>
L_nc   == << "b","a","d","\r","\n" >>
L_nk   == << " ",":"," ","a","\r","\n" >>
L_end  == << "\r","\n" >>

\* the lines the accumulator is fed in SpecHdr
HeaderLines == { L_302, L_200, L_404, L_loc, L_xa, L_xb, L_nc, L_nk, L_end }
\* the lines a transfer of Spec delivers
MainLines == { L_200, L_xa }

\* CURLINFO_RESPONSE_CODE: the code of the last status line libcurl received
CurlCode(line, old) ==
  IF IsStatusLine(StripEol(line))
  THEN ParseStatusLine(StripEol(line), old).status ELSE old

(***************************************************************************)
(* Process-wide state: the once flags, the share handle g_share and the    *)
(* cleanup hooks registered with the environment.                          *)
(***************************************************************************)
NewGlob ==
  [ env           |-> "loading", \* the environment: loading, loaded, down
    onceCurl      |-> FALSE,     \* g_onceCurl
    inits         |-> 0,         \* calls of curl_global_init
    cleanups      |-> 0,         \* calls of curl_global_cleanup
    onceShare     |-> FALSE,     \* g_onceShare
    g_share       |-> "null",    \* g_share: null or the handle
    shareOpts     |-> {},        \* options set on the share handle
    shareCleanups |-> 0,         \* calls of curl_share_cleanup
    onceCleanup   |-> FALSE,     \* StartFetch's onceCleanup
    hooks         |-> 0,         \* cleanup hooks registered
    hooksRun      |-> 0 ]        \* cleanup hooks run

\* ensureCurlGlobal: curl_global_init under std::call_once
ensureCurlGlobal(g) ==
  IF g.onceCurl THEN g
  ELSE [g EXCEPT !.onceCurl = TRUE, !.inits = @ + 1]

\* initShare: under std::call_once, the handle is made and told what to
\* share; no lock or unlock function is given to it
initShare(g) ==
  IF g.onceShare THEN g
  ELSE [g EXCEPT !.onceShare = TRUE,
                 !.g_share = "handle",
                 !.shareOpts = {"SHARE_DNS", "SHARE_COOKIE", "SHARE_SSL_SESSION"}]

\* cleanupShare: if (g_share) { curl_share_cleanup(g_share); g_share = nullptr; }
cleanupShare(g) ==
  IF g.g_share # "null"
  THEN [g EXCEPT !.g_share = "null", !.shareCleanups = @ + 1]
  ELSE g

\* env.AddCleanupHook(...)
AddCleanupHook(g) == [g EXCEPT !.hooks = @ + 1]

\* the body of a cleanup hook: cleanupShare(); curl_global_cleanup();
cleanupHook(g) ==
  [cleanupShare(g) EXCEPT !.cleanups = @ + 1, !.hooksRun = @ + 1, !.env = "down"]

\* InitAll: module load
InitAll(g) == [AddCleanupHook(ensureCurlGlobal(g)) EXCEPT !.env = "loaded"]

\* what StartFetch does to the process-wide state once the url is accepted
StartFetchGlobal(g) ==
  LET g1 == ensureCurlGlobal(g)
  IN  IF g1.onceCleanup THEN g1
      ELSE AddCleanupHook([g1 EXCEPT !.onceCleanup = TRUE])

\* what Execute does to the process-wide state before curl_easy_init
ExecuteGlobal(g) == initShare(ensureCurlGlobal(g))

\* the share handle has a lock function: access to its data is serialised
ShareLocks(g) == "LOCKFUNC" \in g.shareOpts

(***************************************************************************)
(* The state after module load, before the caller submits the request.     *)
(***************************************************************************)
NoSink == [kind |-> "none", token |-> FALSE, stop |-> FALSE]

NewHist ==
  [ produced       |-> << >>,   \* chunk and progress events, as produced
    lines          |-> << >>,   \* header lines consumed
    sink           |-> NoSink,  \* the last sink invocation
    bodyCalls      |-> 0,       \* writeBody invocations begun
    stoppedByToken |-> FALSE,   \* a sink returned stop on seeing the token
    atReturn       |-> FALSE,   \* the token when curl_easy_perform returned
    atCheck        |-> FALSE,   \* the token as Execute read it after perform
    setAt          |-> "never", \* pc at the first abort() of a live worker
    callsAtSet     |-> 0,       \* bodyCalls at that abort()
    lenAtSet       |-> 0,       \* Len(resp_.body) at that abort()
    chunksAtSet    |-> 0,       \* chunks the caller had seen at that abort()
    lastAppend     |-> 0,       \* the writeBody invocation that appended last
    freed          |-> FALSE,   \* abort() ran on a destroyed worker
    threw          |-> FALSE,   \* StartFetch threw its TypeError
    queued         |-> 0,       \* calls of worker->Queue()
    executions     |-> 0 ]      \* times Execute began

\* no request described (outside SpecReq)
NoReq == [stage |-> "none"]

NewNet == [ total |-> 0, given |-> 0, ticks |-> 0, hdrs |-> 0, code |-> 0 ]

Init ==
  /\ main = "idle"
  /\ pc = "new"
  /\ streaming_ = FALSE
  /\ wantProgress_ = FALSE
  /\ maxBodySize_ = -1
  /\ abort_ = FALSE
  /\ resp_ = NewResponseData
  /\ downloaded_ = 0
  /\ chunk = << >>
  /\ rc = "none"
  /\ error = ""
  /\ net = NewNet
  /\ tsfnData_ = << >>
  /\ tsfnProg_ = << >>
  /\ deferred_ = [resolved |-> 0, rejected |-> 0, msg |-> "", res |-> NewResponseData]
  /\ seen = << >>
  /\ hist = NewHist
  /\ glob = InitAll(NewGlob)
  /\ wk = << >>
  /\ req = NoReq

(***************************************************************************)
(* The caller's thread.                                                    *)
(***************************************************************************)
\* StartFetch throwing for a missing url and going on to queue a worker
StartFetchRefuses_GoesOn ==
  /\ main = "idle"
  /\ main' = "inStartFetch"
  /\ pc' = "queued"
  /\ hist' = [hist EXCEPT !.threw = TRUE, !.queued = @ + 1]
  /\ UNCHANGED << glob, wk, req, streaming_, wantProgress_, maxBodySize_, abort_, resp_,
                  downloaded_, chunk, rc, error, net, tsfnData_, tsfnProg_,
                  deferred_, seen >>

\* StartFetch refusing a call without a url string
StartFetchRefuses ==
  /\ main = "idle"
  /\ main' = "loop"
  /\ pc' = "refused"
  /\ hist' = [hist EXCEPT !.threw = TRUE]
  /\ UNCHANGED << glob, wk, req, streaming_, wantProgress_, maxBodySize_, abort_, resp_,
                  downloaded_, chunk, rc, error, net, tsfnData_, tsfnProg_,
                  deferred_, seen >>

\* StartFetch up to worker->Queue(): the constructor reads the options
StartFetchQueue ==
  /\ main = "idle"
  /\ \E s \in BOOLEAN, p \in BOOLEAN, k \in {-1, 0, MaxCap} :
       /\ streaming_' = s
       /\ wantProgress_' = p
       /\ maxBodySize_' = k
  /\ abort_' = FALSE
  /\ pc' = "queued"
  /\ main' = "inStartFetch"
  /\ glob' = StartFetchGlobal(glob)
  /\ hist' = [hist EXCEPT !.queued = @ + 1]
  /\ UNCHANGED << wk, req, resp_, downloaded_, chunk, rc, error, net, tsfnData_,
                  tsfnProg_, deferred_, seen >>

\* StartFetch returning {promise, abort} to the caller
StartFetchReturn ==
  /\ main = "inStartFetch"
  /\ main' = "loop"
  /\ UNCHANGED << glob, wk, req, pc, streaming_, wantProgress_, maxBodySize_, abort_, resp_,
                  downloaded_, chunk, rc, error, net, tsfnData_, tsfnProg_,
                  deferred_, seen, hist >>

\* the chunk events of a sequence of events
Chunks(evs) == SelectSeq(evs, LAMBDA e : e.kind = "chunk")

\* the function makeAbort returned, called by the caller.  The lambda holds
\* the raw this pointer: on a destroyed worker the store goes to freed memory,
\* which is recorded; the token of the request no longer exists then.
Abort ==
  /\ main = "loop"
  /\ pc \notin {"new", "refused"}
  /\ IF pc # "done"
     THEN /\ abort_' = TRUE
          /\ hist' = IF hist.setAt = "never"
                     THEN [hist EXCEPT !.setAt = pc,
                                       !.callsAtSet = hist.bodyCalls,
                                       !.lenAtSet = Len(resp_.body),
                                       !.chunksAtSet = Len(Chunks(seen))]
                     ELSE hist
     ELSE /\ abort_' = abort_
          /\ hist' = [hist EXCEPT !.freed = TRUE]
  /\ UNCHANGED << glob, wk, req, main, pc, streaming_, wantProgress_, maxBodySize_, resp_,
                  downloaded_, chunk, rc, error, net, tsfnData_, tsfnProg_,
                  deferred_, seen >>

\* the callback of tsfnData_ run while the caller is still inside StartFetch
DeliverData_Early ==
  /\ tsfnData_ # << >>
  /\ seen' = Append(seen, [kind |-> "chunk", data |-> Head(tsfnData_)])
  /\ tsfnData_' = Tail(tsfnData_)
  /\ UNCHANGED << glob, wk, req, main, pc, streaming_, wantProgress_, maxBodySize_, abort_,
                  resp_, downloaded_, chunk, rc, error, net, tsfnProg_,
                  deferred_, hist >>

\* the callback of tsfnData_.BlockingCall, run for the oldest queued chunk
DeliverData ==
  /\ main = "loop"
  /\ tsfnData_ # << >>
  /\ seen' = Append(seen, [kind |-> "chunk", data |-> Head(tsfnData_)])
  /\ tsfnData_' = Tail(tsfnData_)
  /\ UNCHANGED << glob, wk, req, main, pc, streaming_, wantProgress_, maxBodySize_, abort_,
                  resp_, downloaded_, chunk, rc, error, net, tsfnProg_,
                  deferred_, hist >>

\* the callback of tsfnProg_.NonBlockingCall, run for the oldest queued record
DeliverProgress ==
  /\ main = "loop"
  /\ tsfnProg_ # << >>
  /\ seen' = Append(seen, [kind |-> "progress", data |-> Head(tsfnProg_)])
  /\ tsfnProg_' = Tail(tsfnProg_)
  /\ UNCHANGED << glob, wk, req, main, pc, streaming_, wantProgress_, maxBodySize_, abort_,
                  resp_, downloaded_, chunk, rc, error, net, tsfnData_,
                  deferred_, hist >>

\* the Response object OnOK builds from resp_
Response(r) ==
  [ status |-> r.status, statusText |-> r.statusText,
    ok |-> (r.status >= 200 /\ r.status < 300),
    headers |-> r.headers, body |-> r.body ]

\* OnOK, then the worker's destruction (the thread-safe functions are
\* released, what they still queue is delivered later)
OnOK ==
  /\ main = "loop"
  /\ pc = "executed"
  /\ error = ""
  /\ deferred_' = [deferred_ EXCEPT !.resolved = @ + 1, !.res = Response(resp_)]
  /\ resp_' = [resp_ EXCEPT !.body = << >>]
  /\ seen' = Append(seen, [kind |-> "resolved", data |-> << >>])
  /\ pc' = "done"
  /\ UNCHANGED << glob, wk, req, main, streaming_, wantProgress_, maxBodySize_, abort_,
                  downloaded_, chunk, rc, error, net, tsfnData_, tsfnProg_, hist >>

\* OnError rejecting without the worker being completed and destroyed
OnError_Again ==
  /\ main = "loop"
  /\ pc = "executed"
  /\ error # ""
  /\ deferred_' = [deferred_ EXCEPT !.rejected = @ + 1, !.msg = error]
  /\ seen' = Append(seen, [kind |-> "rejected", data |-> << >>])
  /\ UNCHANGED << glob, wk, req, main, pc, streaming_, wantProgress_, maxBodySize_, abort_, resp_,
                  downloaded_, chunk, rc, error, net, tsfnData_, tsfnProg_, hist >>

\* OnError rejecting and handing over what resp_ holds as well
OnError_Partial ==
  /\ main = "loop"
  /\ pc = "executed"
  /\ error # ""
  /\ deferred_' = [deferred_ EXCEPT !.rejected = @ + 1, !.msg = error,
                                    !.res = Response(resp_)]
  /\ seen' = Append(seen, [kind |-> "rejected", data |-> << >>])
  /\ pc' = "done"
  /\ UNCHANGED << glob, wk, req, main, streaming_, wantProgress_, maxBodySize_, abort_, resp_,
                  downloaded_, chunk, rc, error, net, tsfnData_, tsfnProg_, hist >>

\* OnError, then the worker's destruction
OnError ==
  /\ main = "loop"
  /\ pc = "executed"
  /\ error # ""
  /\ deferred_' = [deferred_ EXCEPT !.rejected = @ + 1, !.msg = error]
  /\ seen' = Append(seen, [kind |-> "rejected", data |-> << >>])
  /\ pc' = "done"
  /\ UNCHANGED << glob, wk, req, main, streaming_, wantProgress_, maxBodySize_, abort_, resp_,
                  downloaded_, chunk, rc, error, net, tsfnData_, tsfnProg_, hist >>

(***************************************************************************)
(* The pool thread: Execute.                                               *)
(***************************************************************************)
\* Execute when curl_easy_init returns null: it throws
ExecuteInitFails ==
  /\ pc = "queued"
  /\ error' = "curl_easy_init failed"
  /\ pc' = "executed"
  /\ glob' = ExecuteGlobal(glob)
  /\ hist' = [hist EXCEPT !.executions = @ + 1]
  /\ UNCHANGED << wk, req, main, streaming_, wantProgress_, maxBodySize_, abort_, resp_,
                  downloaded_, chunk, rc, net, tsfnData_, tsfnProg_, deferred_,
                  seen >>

\* Execute from its start to the call of curl_easy_perform: the handle is
\* configured and the three sinks are installed.  The server's answer (its
\* body length) is fixed here.
ExecuteSetup ==
  /\ pc = "queued"
  /\ \E t \in 0..MaxResp :
       net' = [net EXCEPT !.total = t, !.hdrs = MaxHdrMain]
  /\ pc' = "perform"
  /\ glob' = ExecuteGlobal(glob)
  /\ hist' = [hist EXCEPT !.executions = @ + 1]
  /\ UNCHANGED << wk, req, main, streaming_, wantProgress_, maxBodySize_, abort_, resp_,
                  downloaded_, chunk, rc, error, tsfnData_, tsfnProg_,
                  deferred_, seen >>

\* curl_easy_perform returning code, as a sink told it to stop or by itself
PerformReturns(code, h) ==
  /\ rc' = code
  /\ pc' = "returned"
  /\ hist' = [h EXCEPT !.atReturn = abort_]

\* writeHeader: one header line handed to the accumulator; returns n.
\* libcurl hands over the header lines of every hop before the first byte
\* of the body.
writeHeader(line) ==
  /\ pc = "perform"
  /\ net.hdrs > 0
  /\ net.given = 0
  /\ hist.bodyCalls = 0
  /\ resp_' = addHeaderLine(resp_, line)
  /\ net' = [net EXCEPT !.hdrs = @ - 1, !.code = CurlCode(line, @)]
  /\ hist' = [hist EXCEPT !.lines = Append(@, line),
                          !.sink = [kind |-> "header", token |-> abort_,
                                    stop |-> FALSE]]
  /\ UNCHANGED << glob, wk, req, main, pc, streaming_, wantProgress_, maxBodySize_, abort_,
                  downloaded_, chunk, rc, error, tsfnData_, tsfnProg_,
                  deferred_, seen >>

WriteHeader == \E line \in MainLines : writeHeader(line)

\* writeBody without its first statement: the token is not polled
WriteBodyPoll_NoPoll ==
  /\ pc = "perform"
  /\ net.given < net.total
  /\ \E n \in 1..(net.total - net.given) :
       /\ chunk' = [i \in 1..n |-> net.given + i]
       /\ pc' = "inbody"
       /\ hist' = [hist EXCEPT !.bodyCalls = @ + 1,
                               !.sink = [kind |-> "body", token |-> abort_,
                                         stop |-> FALSE]]
  /\ UNCHANGED << glob, wk, req, main, streaming_, wantProgress_, maxBodySize_, abort_, resp_,
                  downloaded_, rc, error, net, tsfnData_, tsfnProg_, deferred_, seen >>

\* writeBody, its first statement: if (abort_.load()) return 0.  A sink that
\* returns less than it was given makes curl_easy_perform return
\* CURLE_WRITE_ERROR.
WriteBodyPoll ==
  /\ pc = "perform"
  /\ net.given < net.total
  /\ \E n \in 1..(net.total - net.given) :
       LET h == [hist EXCEPT !.bodyCalls = @ + 1,
                             !.sink = [kind |-> "body", token |-> abort_,
                                       stop |-> abort_],
                             !.stoppedByToken = @ \/ abort_]
       IN  IF abort_
           THEN /\ PerformReturns("CURLE_WRITE_ERROR", h)
                /\ UNCHANGED chunk
           ELSE /\ chunk' = [i \in 1..n |-> net.given + i]
                /\ pc' = "inbody"
                /\ hist' = h
                /\ UNCHANGED rc
  /\ UNCHANGED << glob, wk, req, main, streaming_, wantProgress_, maxBodySize_, abort_, resp_,
                  downloaded_, error, net, tsfnData_, tsfnProg_, deferred_, seen >>

\* writeBody with a streaming consumer: the chunk is queued on tsfnData_
\* (the queue is unbounded, BlockingCall does not wait) and n is returned
WriteBodyStream ==
  /\ pc = "inbody"
  /\ streaming_
  /\ tsfnData_' = Append(tsfnData_, chunk)
  /\ downloaded_' = downloaded_ + Len(chunk)
  /\ net' = [net EXCEPT !.given = @ + Len(chunk)]
  /\ hist' = [hist EXCEPT !.produced = Append(@, [kind |-> "chunk", data |-> chunk])]
  /\ chunk' = << >>
  /\ pc' = "perform"
  /\ UNCHANGED << glob, wk, req, main, streaming_, wantProgress_, maxBodySize_, abort_, resp_,
                  rc, error, tsfnProg_, deferred_, seen >>

\* the size test ignoring the chunk that is about to be appended
OverCap_SizeOnly(size, n, cap) == cap >= 0 /\ size > cap

\* the size test of writeBody
OverCap(size, n, cap) == cap >= 0 /\ size + n > cap

\* writeBody without a streaming consumer, the chunk over the cap: returns 0
WriteBodyOverCap ==
  /\ pc = "inbody"
  /\ ~streaming_
  /\ OverCap(Len(resp_.body), Len(chunk), maxBodySize_)
  /\ PerformReturns("CURLE_WRITE_ERROR", [hist EXCEPT !.sink.stop = TRUE])
  /\ chunk' = << >>
  /\ UNCHANGED << glob, wk, req, main, streaming_, wantProgress_, maxBodySize_, abort_, resp_,
                  downloaded_, error, net, tsfnData_, tsfnProg_, deferred_, seen >>

\* writeBody without a streaming consumer: the chunk is appended to
\* resp_.body and n is returned
WriteBodyBuffer ==
  /\ pc = "inbody"
  /\ ~streaming_
  /\ ~OverCap(Len(resp_.body), Len(chunk), maxBodySize_)
  /\ resp_' = [resp_ EXCEPT !.body = @ \o chunk]
  /\ downloaded_' = downloaded_ + Len(chunk)
  /\ net' = [net EXCEPT !.given = @ + Len(chunk)]
  /\ chunk' = << >>
  /\ pc' = "perform"
  /\ hist' = [hist EXCEPT !.lastAppend = hist.bodyCalls]
  /\ UNCHANGED << glob, wk, req, main, streaming_, wantProgress_, maxBodySize_, abort_, rc,
                  error, tsfnData_, tsfnProg_, deferred_, seen >>

\* writeBody without a streaming consumer when the insert throws: returns 0
WriteBodyNoMemory ==
  /\ pc = "inbody"
  /\ ~streaming_
  /\ ~OverCap(Len(resp_.body), Len(chunk), maxBodySize_)
  /\ PerformReturns("CURLE_WRITE_ERROR", [hist EXCEPT !.sink.stop = TRUE])
  /\ chunk' = << >>
  /\ UNCHANGED << glob, wk, req, main, streaming_, wantProgress_, maxBodySize_, abort_, resp_,
                  downloaded_, error, net, tsfnData_, tsfnProg_, deferred_, seen >>

\* onProgress, called only when CURLOPT_NOPROGRESS is 0 (wantProgress_).  A
\* non-zero return makes curl_easy_perform return CURLE_ABORTED_BY_CALLBACK.
OnProgress ==
  /\ pc = "perform"
  /\ wantProgress_
  /\ net.ticks < MaxTicks
  /\ net' = [net EXCEPT !.ticks = @ + 1]
  /\ LET h == [hist EXCEPT !.sink = [kind |-> "progress", token |-> abort_,
                                     stop |-> abort_],
                           !.stoppedByToken = @ \/ abort_]
     IN  IF abort_
         THEN /\ PerformReturns("CURLE_ABORTED_BY_CALLBACK", h)
              /\ UNCHANGED tsfnProg_
         ELSE LET agg == << net.given, net.total, 0, 0 >>
              IN  /\ tsfnProg_' = Append(tsfnProg_, agg)
                  /\ hist' = [h EXCEPT !.produced =
                                Append(@, [kind |-> "progress", data |-> agg])]
                  /\ UNCHANGED << glob, wk, req, pc, rc >>
  /\ UNCHANGED << glob, wk, req, main, streaming_, wantProgress_, maxBodySize_, abort_, resp_,
                  downloaded_, chunk, error, tsfnData_, deferred_, seen >>

\* curl_easy_perform returning CURLE_OK: the whole body was handed over
PerformOK ==
  /\ pc = "perform"
  /\ net.given = net.total
  /\ PerformReturns("CURLE_OK", hist)
  /\ UNCHANGED << glob, wk, req, main, streaming_, wantProgress_, maxBodySize_, abort_, resp_,
                  downloaded_, chunk, error, net, tsfnData_, tsfnProg_,
                  deferred_, seen >>

\* curl_easy_perform failing by itself (DNS, connect, TLS, timeout, redirects)
PerformFails ==
  /\ pc = "perform"
  /\ PerformReturns("CURLE_OPERATION_TIMEDOUT", hist)
  /\ UNCHANGED << glob, wk, req, main, streaming_, wantProgress_, maxBodySize_, abort_, resp_,
                  downloaded_, chunk, error, net, tsfnData_, tsfnProg_,
                  deferred_, seen >>

\* the reason phrase Execute gives a status that came without one
ReasonOf(status) ==
  CASE status = 200 -> << "O", "K" >>
    [] status = 201 -> << "C","r","e","a","t","e","d" >>
    [] status = 204 -> << "N","o"," ","C","o","n","t","e","n","t" >>
    [] status = 301 -> << "M","o","v","e","d"," ","P","e","r","m","a","n","e","n","t","l","y" >>
    [] status = 302 -> << "F","o","u","n","d" >>
    [] status = 400 -> << "B","a","d"," ","R","e","q","u","e","s","t" >>
    [] status = 401 -> << "U","n","a","u","t","h","o","r","i","z","e","d" >>
    [] status = 403 -> << "F","o","r","b","i","d","d","e","n" >>
    [] status = 404 -> << "N","o","t"," ","F","o","u","n","d" >>
    [] status = 500 -> << "I","n","t","e","r","n","a","l"," ","S","e","r","v","e","r"," ","E","r","r","o","r" >>
    [] OTHER -> << >>

\* the two throws in the other order: the CURLcode is looked at first
ThrownAfterPerform_RcFirst(ab, code) ==
  IF code # "CURLE_OK" THEN "curl perform error"
  ELSE IF ab THEN "request aborted"
  ELSE ""

\* the throw for the token left out
ThrownAfterPerform_NoAbort(ab, code) ==
  IF code # "CURLE_OK" THEN "curl perform error" ELSE ""

\* a transfer that ended well goes on whatever the token
ThrownAfterPerform_OkWins(ab, code) ==
  IF code = "CURLE_OK" THEN ""
  ELSE IF ab THEN "request aborted"
  ELSE "curl perform error"

\* what Execute throws after curl_easy_perform returned code, reading the
\* token as ab: "" when it goes on
ThrownAfterPerform(ab, code) ==
  IF ab THEN "request aborted"
  ELSE IF code # "CURLE_OK" THEN "curl perform error"
  ELSE ""

\* Execute after curl_easy_perform: the two throws, then status and reason
ExecuteFinish ==
  /\ pc = "returned"
  /\ error' = ThrownAfterPerform(abort_, rc)
  /\ resp_' = IF error' # "" THEN resp_
              ELSE [resp_ EXCEPT !.status = net.code,
                                 !.statusText = IF @ = << >> THEN ReasonOf(net.code)
                                                ELSE @]
  /\ hist' = [hist EXCEPT !.atCheck = abort_]
  /\ pc' = "executed"
  /\ UNCHANGED << glob, wk, req, main, streaming_, wantProgress_, maxBodySize_, abort_,
                  downloaded_, chunk, rc, net, tsfnData_, tsfnProg_, deferred_, seen >>

(***************************************************************************)
(* One request: the caller's thread and the pool thread interleaved.       *)
(***************************************************************************)
Next ==
  \/ StartFetchRefuses
  \/ StartFetchQueue
  \/ StartFetchReturn
  \/ Abort
  \/ DeliverData
  \/ DeliverProgress
  \/ OnOK
  \/ OnError
  \/ ExecuteInitFails
  \/ ExecuteSetup
  \/ WriteHeader
  \/ WriteBodyPoll
  \/ WriteBodyStream
  \/ WriteBodyOverCap
  \/ WriteBodyBuffer
  \/ WriteBodyNoMemory
  \/ OnProgress
  \/ PerformOK
  \/ PerformFails
  \/ ExecuteFinish

Spec == Init /\ [][Next]_vars

\* the pool thread: Execute, the body and progress sinks and the return of
\* curl_easy_perform.  Header lines are left out: they are finitely many
\* and curl_easy_perform returns with or without them.
Pool ==
  \/ ExecuteInitFails
  \/ ExecuteSetup
  \/ WriteBodyPoll
  \/ WriteBodyStream
  \/ WriteBodyOverCap
  \/ WriteBodyBuffer
  \/ WriteBodyNoMemory
  \/ OnProgress
  \/ PerformOK
  \/ PerformFails
  \/ ExecuteFinish

\* One request, with the worker scheduled fairly, curl_easy_perform
\* returning, StartFetch returning and the event loop running the
\* completion callback.
SpecFair ==
  /\ Init
  /\ [][Next]_vars
  /\ WF_vars(Pool)
  /\ WF_vars(StartFetchReturn)
  /\ WF_vars(OnOK \/ OnError)

(***************************************************************************)
(* The header accumulator by itself: a transfer inside curl_easy_perform   *)
(* whose transport delivers up to MaxHeaderLines lines of HeaderLines.     *)
(***************************************************************************)
InitHdr ==
  /\ main = "loop"
  /\ pc = "perform"
  /\ streaming_ = FALSE
  /\ wantProgress_ = FALSE
  /\ maxBodySize_ = -1
  /\ abort_ = FALSE
  /\ resp_ = NewResponseData
  /\ downloaded_ = 0
  /\ chunk = << >>
  /\ rc = "none"
  /\ error = ""
  /\ net = [NewNet EXCEPT !.hdrs = MaxHeaderLines]
  /\ tsfnData_ = << >>
  /\ tsfnProg_ = << >>
  /\ deferred_ = [resolved |-> 0, rejected |-> 0, msg |-> "", res |-> NewResponseData]
  /\ seen = << >>
  /\ hist = NewHist
  /\ glob = ExecuteGlobal(StartFetchGlobal(InitAll(NewGlob)))
  /\ wk = << >>
  /\ req = NoReq

FeedHeader == \E line \in HeaderLines : writeHeader(line)

NextHdr == FeedHeader

SpecHdr == InitHdr /\ [][NextHdr]_vars

(***************************************************************************)
(* The request the worker derives from the options: the constructor reads  *)
(* the caller's headers and builds the multipart body, Execute assembles   *)
(* the header list it gives to the transport.                              *)
(***************************************************************************)
\* names a caller may give a header
N_UserAgent      == << "U", "s", "e", "r", "-", "A", "g", "e", "n", "t" >>
N_user_agent     == << "u", "s", "e", "r", "-", "a", "g", "e", "n", "t" >>
N_USER_AGENT     == << "U", "S", "E", "R", "-", "A", "G", "E", "N", "T" >>
N_AcceptEncoding == << "A", "c", "c", "e", "p", "t", "-", "E", "n", "c", "o", "d", "i", "n", "g" >>
N_connection     == << "c", "o", "n", "n", "e", "c", "t", "i", "o", "n" >>
N_Expect         == << "E", "x", "p", "e", "c", "t" >>
N_EXPECT         == << "E", "X", "P", "E", "C", "T" >>
N_ContentType    == << "C", "o", "n", "t", "e", "n", "t", "-", "T", "y", "p", "e" >>
N_content_type   == << "c", "o", "n", "t", "e", "n", "t", "-", "t", "y", "p", "e" >>
N_XA             == << "X", "-", "A" >>

HeaderNames == { N_UserAgent, N_user_agent, N_USER_AGENT, N_AcceptEncoding,
                 N_connection, N_Expect, N_EXPECT, N_ContentType, N_XA }

\* the headers option: an object, its properties in their order
HeaderMaps ==
  UNION { { h \in [1..n -> [k : HeaderNames, v : {<< "v" >>}]] :
              \A i, j \in 1..n : i # j => h[i].k # h[j].k } : n \in 0..MaxHdrOpts }

\* Napi::Object::Has on the headers object
Has(h, name) == \E i \in 1..Len(h) : h[i].k = name

\* what the constructor's loop leaves in headersKVs_
RECURSIVE HeadersKVs(_)
HeadersKVs(h) ==
  IF h = << >> THEN << >>
  ELSE IF Head(h).k # << >>
       THEN << Head(h).k \o << ":", " " >> \o Head(h).v >> \o HeadersKVs(Tail(h))
       ELSE HeadersKVs(Tail(h))

\* the header lines Execute adds by itself
D_UserAgent      == << "U", "s", "e", "r", "-", "A", "g", "e", "n", "t", ":", " ", "u", "n", "d", "i", "c", "i", "/", "6", " ", "n", "a", "r", "u", "y", "a", "i", "z", "u", "m", "i" >>
D_AcceptEncoding == << "A", "c", "c", "e", "p", "t", "-", "E", "n", "c", "o", "d", "i", "n", "g", ":", " ", "b", "r", ",", " ", "g", "z", "i", "p", ",", " ", "d", "e", "f", "l", "a", "t", "e" >>
D_Connection     == << "C", "o", "n", "n", "e", "c", "t", "i", "o", "n", ":", " ", "k", "e", "e", "p", "-", "a", "l", "i", "v", "e" >>
D_Expect         == << "E", "x", "p", "e", "c", "t", ":" >>
D_ContentType    == << "C", "o", "n", "t", "e", "n", "t", "-", "T", "y", "p", "e", ":", " ", "m", "u", "l", "t", "i", "p", "a", "r", "t", "/", "f", "o", "r", "m", "-", "d", "a", "t", "a", ";", " ", "b", "o", "u", "n", "d", "a", "r", "y", "=" >>

(***************************************************************************)
(* buildMultipartFromNapi.                                                 *)
(***************************************************************************)
\* what randomBoundary may return
Boundaries == { << "-", "-", "-", "-", "L", "i", "o", "r", "a", "F", "o", "r", "m", "B", "o", "u", "n", "d", "a", "r", "y", "1", "f" >>,
                << "-", "-", "-", "-", "L", "i", "o", "r", "a", "F", "o", "r", "m", "B", "o", "u", "n", "d", "a", "r", "y", "c", "0", "7" >> }

CRLF == << "\r", "\n" >>
Dashes == << "-", "-" >>

\* JavaScript values a field may hold
JsString(t) == [kind |-> "string", text |-> t]
JsBuffer(b) == [kind |-> "buffer", bytes |-> b]
JsObject(p) == [kind |-> "object", props |-> p]

\* Napi::Value::ToString().Utf8Value()
Utf8Value(v) ==
  CASE v.kind = "string" -> v.text
    [] v.kind = "object" -> << "[", "o", "b", "j", "e", "c", "t", " ", "O", "b", "j", "e", "c", "t", "]" >>

IsBuffer(v) == v.kind = "buffer"

\* Napi::Object::Has on a field descriptor
HasProp(o, p) == p \in DOMAIN o.props

V_text     == JsString(<< "h", "i" >>)
V_buf      == JsBuffer(<< "z" >>)
V_nobytes  == JsBuffer(<< >>)
V_file     == JsObject([value |-> JsBuffer(<< "z" >>), filename |-> JsString(<< "f" >>)])
V_typed    == JsObject([buffer |-> JsBuffer(<< "z" >>), contentType |-> JsString(<< "c" >>)])
V_zero     == JsObject([data |-> JsBuffer(<< >>)])
V_value    == JsObject([value |-> JsString(<< "t" >>)])
V_plain    == JsObject([other |-> JsString(<< "t" >>)])

FieldValues == { V_text, V_buf, V_nobytes, V_file, V_typed, V_zero, V_value, V_plain }

\* keys a field may have
K_a     == << "a" >>
K_b     == << "b" >>
K_quote == << "q", "\"", "r" >>

FieldKeys == { K_a, K_b, K_quote }

\* the formData option: an object, its properties in their order
FieldMaps ==
  UNION { { f \in [1..n -> [k : FieldKeys, v : FieldValues]] :
              \A i, j \in 1..n : i # j => f[i].k # f[j].k } : n \in 0..MaxFields }

S_disposition == << "C", "o", "n", "t", "e", "n", "t", "-", "D", "i", "s", "p", "o", "s", "i", "t", "i", "o", "n", ":", " ", "f", "o", "r", "m", "-", "d", "a", "t", "a", ";", " ", "n", "a", "m", "e", "=", "\"" >>
S_filename    == << ";", " ", "f", "i", "l", "e", "n", "a", "m", "e", "=", "\"" >>
S_type        == << "C", "o", "n", "t", "e", "n", "t", "-", "T", "y", "p", "e", ":", " " >>
S_blob        == << "b", "l", "o", "b" >>
S_octet       == << "a", "p", "p", "l", "i", "c", "a", "t", "i", "o", "n", "/", "o", "c", "t", "e", "t", "-", "s", "t", "r", "e", "a", "m" >>
Quote         == << "\"" >>

\* the lambda flushDataPart: the part's head and content
flushDataPart(isFile, name, filename, contentType, data, textVal) ==
  LET head == S_disposition \o name \o Quote
  IN  IF isFile
      THEN head \o S_filename \o (IF filename = << >> THEN S_blob ELSE filename)
                \o Quote \o CRLF
                \o S_type \o (IF contentType = << >> THEN S_octet ELSE contentType)
                \o CRLF \o CRLF \o data \o CRLF
      ELSE head \o CRLF \o CRLF \o textVal \o CRLF

\* one turn of the loop over the fields, after the opening delimiter
EncodeField(name, v) ==
  IF IsBuffer(v)
  THEN flushDataPart(TRUE, name, << >>, << >>, v.bytes, << >>)
  ELSE IF v.kind = "object"
  THEN LET bufProp == IF HasProp(v, "value") /\ IsBuffer(v.props.value) THEN "value"
                      ELSE IF HasProp(v, "data") /\ IsBuffer(v.props.data) THEN "data"
                      ELSE IF HasProp(v, "buffer") /\ IsBuffer(v.props.buffer) THEN "buffer"
                      ELSE "none"
           data == IF bufProp = "none" THEN << >> ELSE v.props[bufProp].bytes
           textVal == IF bufProp # "none" THEN << >>
                      ELSE IF HasProp(v, "value") THEN Utf8Value(v.props.value)
                      ELSE Utf8Value(v)
           filename == IF HasProp(v, "filename") THEN Utf8Value(v.props.filename)
                       ELSE << >>
           contentType == IF HasProp(v, "contentType") THEN Utf8Value(v.props.contentType)
                          ELSE << >>
       IN  flushDataPart(data # << >>, name, filename, contentType, data, textVal)
  ELSE flushDataPart(FALSE, name, << >>, << >>, << >>, Utf8Value(v))

\* buildMultipartFromNapi: outBody for the fields, with outBoundary
RECURSIVE buildMultipartFromNapi(_, _)
buildMultipartFromNapi(form, outBoundary) ==
  IF form = << >> THEN Dashes \o outBoundary \o Dashes \o CRLF
  ELSE Dashes \o outBoundary \o CRLF
       \o EncodeField(Head(form).k, Head(form).v)
       \o buildMultipartFromNapi(Tail(form), outBoundary)

(***************************************************************************)
(* The worker's request: constructor and Execute's header list.            *)
(***************************************************************************)
Absent == << "absent" >>

\* the options tried: headers with no form, and forms with or without a
\* Content-Type of the caller
Options ==
  [headers : HeaderMaps, decompress : BOOLEAN, formData : {Absent}]
  \cup
  [headers : { << >>, << [k |-> N_content_type, v |-> << "v" >>] >> },
   decompress : {TRUE}, formData : {<< "form", f >> : f \in FieldMaps}]

\* the members the constructor sets from the options; outBoundary is what
\* randomBoundary returns
FetchWorker(o, outBoundary) ==
  LET h == o.headers
      form == o.formData # Absent
  IN  [ stage             |-> "constructed",
        opts              |-> o,
        decompress_       |-> o.decompress,
        headersKVs_       |-> HeadersKVs(h),
        haveUserUA_       |-> Has(h, N_UserAgent) \/ Has(h, N_user_agent),
        haveAcceptEnc_    |-> Has(h, N_AcceptEncoding) \/ Has(h, lower(N_AcceptEncoding)),
        haveConn_         |-> Has(h, << "C", "o", "n", "n", "e", "c", "t", "i", "o", "n" >>) \/ Has(h, N_connection),
        haveExpect_       |-> Has(h, N_Expect) \/ Has(h, lower(N_Expect)),
        haveContentType_  |-> Has(h, N_ContentType) \/ Has(h, N_content_type),
        useMultipart_     |-> form,
        multipartBoundary_ |-> IF form THEN outBoundary ELSE << >>,
        multipartBody_    |-> IF form THEN buildMultipartFromNapi(o.formData[2], outBoundary)
                              ELSE << >>,
        hdrs              |-> << >> ]

\* the SList hdrs Execute hands to CURLOPT_HTTPHEADER
ExecuteHeaders(r) ==
  (IF ~r.haveUserUA_ THEN << D_UserAgent >> ELSE << >>)
  \o (IF ~r.haveAcceptEnc_ /\ r.decompress_ THEN << D_AcceptEncoding >> ELSE << >>)
  \o (IF ~r.haveConn_ THEN << D_Connection >> ELSE << >>)
  \o (IF ~r.haveExpect_ THEN << D_Expect >> ELSE << >>)
  \o (IF r.useMultipart_ /\ ~r.haveContentType_
      THEN << D_ContentType \o r.multipartBoundary_ >> ELSE << >>)
  \o r.headersKVs_

rest == << main, pc, streaming_, wantProgress_, maxBodySize_, abort_, resp_,
           downloaded_, chunk, rc, error, net, tsfnData_, tsfnProg_, deferred_,
           seen, hist, glob, wk >>

\* new FetchWorker(env, url, opts, deferred)
ConstructWorker ==
  /\ req.stage = "none"
  /\ \E o \in Options, b \in Boundaries : req' = FetchWorker(o, b)
  /\ UNCHANGED rest

\* Execute from SList hdrs to CURLOPT_HTTPHEADER
PrepareHeaders ==
  /\ req.stage = "constructed"
  /\ req' = [req EXCEPT !.stage = "prepared", !.hdrs = ExecuteHeaders(req)]
  /\ UNCHANGED rest

NextReq ==
  \/ ConstructWorker
  \/ PrepareHeaders

SpecReq == Init /\ [][NextReq]_vars

(***************************************************************************)
(* The life of the process-wide state: module load, NumReq requests, each  *)
(* with its own worker and cancellation token, and the environment's       *)
(* shutdown, which runs the registered cleanup hooks.  The pool threads    *)
(* belong to the process, not to the environment: nothing in the source    *)
(* makes a cleanup hook wait for them.                                     *)
(***************************************************************************)
Requests == 1..NumReq

\* the heap addresses a FetchWorker can be allocated at
Addrs == 1..NumReq

NewWorker ==
  [ pc     |-> "new",    \* new, queued, perform, inshare, executed, done
    abort_ |-> FALSE,    \* FetchWorker::abort_
    addr   |-> 0,        \* where new FetchWorker(...) put the object
    share  |-> FALSE,    \* CURLOPT_SHARE was set on the easy handle
    setBy  |-> {} ]      \* the requests whose abort function set abort_

\* the worker object exists: constructed and not yet destroyed
Live(w) == w.pc \in {"queued", "perform", "inshare", "executed"}

InitLife ==
  /\ main = "loop"
  /\ pc = "new"
  /\ streaming_ = FALSE
  /\ wantProgress_ = FALSE
  /\ maxBodySize_ = -1
  /\ abort_ = FALSE
  /\ resp_ = NewResponseData
  /\ downloaded_ = 0
  /\ chunk = << >>
  /\ rc = "none"
  /\ error = ""
  /\ net = NewNet
  /\ tsfnData_ = << >>
  /\ tsfnProg_ = << >>
  /\ deferred_ = [resolved |-> 0, rejected |-> 0, msg |-> "", res |-> NewResponseData]
  /\ seen = << >>
  /\ hist = NewHist
  /\ glob = NewGlob
  /\ wk = [i \in Requests |-> NewWorker]
  /\ req = NoReq

one == << main, pc, streaming_, wantProgress_, maxBodySize_, abort_, resp_,
          downloaded_, chunk, rc, error, net, tsfnData_, tsfnProg_, deferred_,
          seen, hist, req >>

\* InitAll, run when the environment loads the module
LoadModule ==
  /\ glob.env = "loading"
  /\ glob' = InitAll(glob)
  /\ UNCHANGED << wk, one >>

\* StartFetch with a url: the worker is constructed (abort_ false), its
\* abort function made, the worker queued, {promise, abort} returned
Submit(i) ==
  /\ glob.env = "loaded"
  /\ wk[i].pc = "new"
  /\ \A j \in Requests : j < i => wk[j].pc # "new"
  /\ glob' = StartFetchGlobal(glob)
  /\ \E a \in Addrs \ {wk[j].addr : j \in {k \in Requests : Live(wk[k])}} :
       wk' = [wk EXCEPT ![i] = [NewWorker EXCEPT !.pc = "queued", !.addr = a]]
  /\ UNCHANGED one

\* Execute up to curl_easy_perform: ensureCurlGlobal, initShare,
\* curl_easy_init, if (g_share) CURLOPT_SHARE
ExecuteBegin(i) ==
  /\ wk[i].pc = "queued"
  /\ glob' = ExecuteGlobal(glob)
  /\ wk' = [wk EXCEPT ![i].pc = "perform",
                      ![i].share = (glob'.g_share # "null")]
  /\ UNCHANGED one

\* inside curl_easy_perform the transfer reads or writes the data the share
\* handle holds (DNS cache, cookies, TLS sessions); libcurl serialises this
\* only through the lock function of the share handle
ShareEnter(i) ==
  /\ wk[i].pc = "perform"
  /\ wk[i].share
  /\ ShareLocks(glob) => \A j \in Requests : wk[j].pc # "inshare"
  /\ wk' = [wk EXCEPT ![i].pc = "inshare"]
  /\ UNCHANGED << glob, one >>

ShareLeave(i) ==
  /\ wk[i].pc = "inshare"
  /\ wk' = [wk EXCEPT ![i].pc = "perform"]
  /\ UNCHANGED << glob, one >>

\* curl_easy_perform returns and Execute ends
ExecuteEnd(i) ==
  /\ wk[i].pc = "perform"
  /\ wk' = [wk EXCEPT ![i].pc = "executed"]
  /\ UNCHANGED << glob, one >>

\* OnOK or OnError on the JavaScript thread, then the worker deletes itself
Complete(i) ==
  /\ glob.env = "loaded"
  /\ wk[i].pc = "executed"
  /\ wk' = [wk EXCEPT ![i].pc = "done"]
  /\ UNCHANGED << glob, one >>

\* the abort function of request i: self->abort_.store(true) through the
\* raw pointer it captured.  Once worker i is destroyed the store goes to
\* freed memory: it may hit nothing that matters, or the worker that was
\* allocated at the same address since.
AbortFn(i) ==
  /\ glob.env = "loaded"
  /\ wk[i].pc # "new"
  /\ IF Live(wk[i])
     THEN wk' = [wk EXCEPT ![i].abort_ = TRUE,
                           ![i].setBy = @ \cup {i}]
     ELSE \/ wk' = wk
          \/ \E j \in Requests :
               /\ Live(wk[j])
               /\ wk[j].addr = wk[i].addr
               /\ wk' = [wk EXCEPT ![j].abort_ = TRUE,
                                   ![j].setBy = @ \cup {i}]
  /\ UNCHANGED << glob, one >>

\* the environment shuts down and runs one of the registered cleanup hooks
RunCleanupHook ==
  /\ glob.env \in {"loaded", "down"}
  /\ glob.hooksRun < glob.hooks
  /\ glob' = cleanupHook(glob)
  /\ UNCHANGED << wk, one >>

NextLife ==
  \/ LoadModule
  \/ \E i \in Requests : Submit(i)
  \/ \E i \in Requests : ExecuteBegin(i)
  \/ \E i \in Requests : ShareEnter(i)
  \/ \E i \in Requests : ShareLeave(i)
  \/ \E i \in Requests : ExecuteEnd(i)
  \/ \E i \in Requests : Complete(i)
  \/ \E i \in Requests : AbortFn(i)
  \/ RunCleanupHook

SpecLife == InitLife /\ [][NextLife]_vars

(***************************************************************************)
(* Vocabulary of the properties.                                           *)
(***************************************************************************)
Terminal(e) == e.kind \in {"resolved", "rejected"}
Events(evs) == SelectSeq(evs, LAMBDA e : ~Terminal(e))
IsPrefix(a, b) == Len(a) <= Len(b) /\ SubSeq(b, 1, Len(a)) = a

\* the terminal outcome was delivered and is the aborted failure
Aborted ==
  /\ deferred_.rejected = 1
  /\ deferred_.resolved = 0
  /\ deferred_.msg = "request aborted"

\* the token was set by abort() while the worker existed
TokenSet == hist.setAt # "never"

\* the accumulator run over lines from a fresh ResponseData
RECURSIVE Replay(_, _)
Replay(r, lines) ==
  IF lines = << >> THEN r
  ELSE Replay(addHeaderLine(r, Head(lines)), Tail(lines))

StatusLineAt == {i \in 1..Len(hist.lines) : IsStatusLine(StripEol(hist.lines[i]))}

(***************************************************************************)
(* C1.  As claimed: once the token has been set, no further bytes are      *)
(* appended to the buffered body and the terminal outcome is the aborted   *)
(* failure, never a resolved Response.                                     *)
(***************************************************************************)
C1_OnceSetNoBytesAndAborted ==
  TokenSet =>
    /\ Len(resp_.body) <= hist.lenAtSet
    /\ pc = "done" => Aborted

\* C1, amended: once the token has been set, no writeBody invocation that
\* starts afterwards appends to the buffered body; and when Execute reads the
\* token as set after curl_easy_perform, the terminal outcome is the aborted
\* failure and never a resolved Response.
C1_SetBeforeCheckAborts ==
  /\ TokenSet => hist.lastAppend <= hist.callsAtSet
  /\ (hist.atCheck /\ pc = "done") => Aborted

\* one byte buffered, then abort(), then the next chunk is refused and the
\* request ends aborted
C1_Witness ==
  /\ pc = "done"
  /\ ~streaming_
  /\ hist.setAt = "perform"
  /\ hist.lenAtSet = 1
  /\ hist.bodyCalls = 2
  /\ Len(resp_.body) = 1
  /\ hist.sink = [kind |-> "body", token |-> TRUE, stop |-> TRUE]
  /\ Aborted

(***************************************************************************)
(* C2.  In streaming mode the terminal outcome is delivered only after     *)
(* every chunk forwarded to onData has been delivered, and no chunk is     *)
(* delivered after it.                                                     *)
(***************************************************************************)
C2_OutcomeAfterAllChunks ==
  streaming_ =>
    /\ pc = "done" => tsfnData_ = << >>
    /\ \A i \in 1..Len(seen) : \A j \in 1..Len(seen) :
         (Terminal(seen[i]) /\ i < j) => seen[j].kind # "chunk"

(***************************************************************************)
(* C3.  With both consumers, the chunk and progress events the caller      *)
(* observes are, in order, the events the worker produced.                 *)
(***************************************************************************)
C3_EventsInProducedOrder ==
  (streaming_ /\ wantProgress_) => IsPrefix(Events(seen), hist.produced)

(***************************************************************************)
(* C4.  Without a streaming consumer and with maxBodySize = K >= 0, the    *)
(* retained body never holds more than K bytes, and a response longer than *)
(* K bytes ends rejected, never resolved.                                  *)
(***************************************************************************)
C4_SizeCap ==
  (~streaming_ /\ maxBodySize_ >= 0) =>
    /\ Len(resp_.body) <= maxBodySize_
    /\ Len(deferred_.res.body) <= maxBodySize_
    /\ (pc = "done" /\ net.total > maxBodySize_) =>
         (deferred_.rejected = 1 /\ deferred_.resolved = 0)

\* a two-byte response under a cap of one byte: the second chunk is refused
\* by the size test and the request is rejected
C4_Witness ==
  /\ pc = "done"
  /\ ~streaming_
  /\ maxBodySize_ = 1
  /\ net.total = 2
  /\ Len(resp_.body) = 1
  /\ ~abort_
  /\ hist.sink = [kind |-> "body", token |-> FALSE, stop |-> TRUE]
  /\ rc = "CURLE_WRITE_ERROR"
  /\ deferred_.rejected = 1

(***************************************************************************)
(* C5.  After any sequence of header lines, the accumulated headers,       *)
(* status code and status text are those of the hop opened by the most     *)
(* recent status line: they equal what the accumulator holds when it is    *)
(* fed, from new, only the lines from that status line on.                 *)
(***************************************************************************)
C5_FinalHopOnly ==
  StatusLineAt # {} =>
    LET k    == Max(StatusLineAt)
        last == Replay(NewResponseData, SubSeq(hist.lines, k, Len(hist.lines)))
    IN  /\ resp_.headers = last.headers
        /\ resp_.status = last.status
        /\ resp_.statusText = last.statusText

\* a redirect with a Location header, then the final hop with another header
C5_Witness ==
  /\ hist.lines = << L_302, L_loc, L_200, L_xa >>
  /\ DOMAIN resp_.headers = { << "x" >> }
  /\ resp_.status = 200

(***************************************************************************)
(* C6.  When a sink stopped the transfer because it saw the token set, the *)
(* outcome is "request aborted" and not a transport error; a transport     *)
(* error is the outcome only if the token was not set when                 *)
(* curl_easy_perform returned.                                             *)
(***************************************************************************)
C6_AbortedNotTransportError ==
  /\ (hist.stoppedByToken /\ pc \in {"executed", "done"}) => error = "request aborted"
  /\ (hist.stoppedByToken /\ pc = "done") => Aborted
  /\ (pc \in {"executed", "done"} /\ error = "curl perform error") => ~hist.atReturn

\* the progress sink saw the token and stopped the transfer
C6_Witness ==
  /\ pc = "done"
  /\ hist.stoppedByToken
  /\ hist.sink.kind = "progress"
  /\ rc = "CURLE_ABORTED_BY_CALLBACK"
  /\ Aborted

(***************************************************************************)
(* C7.  Each of the three sinks polls the token: a sink invocation of any  *)
(* kind that begins with the token set returns the stop signal.            *)
(***************************************************************************)
C7_EverySinkPolls == hist.sink.token => hist.sink.stop

(***************************************************************************)
(* C8.  In streaming mode, once the token has been set mid-stream, no      *)
(* further chunk is delivered to onData and the outcome is aborted.        *)
(***************************************************************************)
C8_NoChunkAfterAbort ==
  (streaming_ /\ hist.setAt \in {"perform", "inbody"}) =>
    /\ Len(Chunks(seen)) = hist.chunksAtSet
    /\ pc = "done" => Aborted

(***************************************************************************)
(* C9.  As claimed: if the token is set before the transport has delivered *)
(* any body bytes, the outcome is aborted and no body bytes are exposed    *)
(* (no chunk delivered, no Response carrying body bytes).                  *)
(***************************************************************************)
C9_EarlyAbortIsAbortedAndEmpty ==
  (TokenSet /\ hist.callsAtSet = 0) =>
    /\ Chunks(seen) = << >>
    /\ deferred_.res.body = << >>
    /\ pc = "done" => Aborted

\* C9, amended: if the token is set before the transport has delivered any
\* body bytes, no body bytes are exposed to the caller (nothing is buffered or
\* queued, no chunk is delivered, no Response carries body bytes); and the
\* outcome is the aborted failure when Execute reads the token as set after
\* curl_easy_perform.
C9_EarlyAbortExposesNothing ==
  (TokenSet /\ hist.callsAtSet = 0) =>
    /\ Chunks(seen) = << >>
    /\ tsfnData_ = << >>
    /\ resp_.body = << >>
    /\ deferred_.res.body = << >>
    /\ (hist.atCheck /\ pc = "done") => Aborted

\* abort() before Execute starts, a two-byte response to a streaming
\* consumer: the first chunk is refused, nothing is delivered
C9_Witness ==
  /\ pc = "done"
  /\ streaming_
  /\ hist.setAt = "queued"
  /\ net.total = 2
  /\ hist.bodyCalls = 1
  /\ net.given = 0
  /\ Chunks(seen) = << >>
  /\ Aborted

(***************************************************************************)
(* C10.  The terminal outcome is delivered exactly once: when the worker   *)
(* has completed the promise was resolved once or rejected once, never     *)
(* both, never twice, and before that it is not settled.                   *)
(***************************************************************************)
C10_SettledExactlyOnce ==
  LET n == IF pc = "done" THEN 1 ELSE 0
  IN  /\ deferred_.resolved + deferred_.rejected = n
      /\ Len(SelectSeq(seen, Terminal)) = n

\* the handle could not be created: the one outcome is that rejection
C10_Witness ==
  /\ pc = "done"
  /\ deferred_.msg = "curl_easy_init failed"
  /\ deferred_.rejected = 1
  /\ deferred_.resolved = 0

\* C14 as stated: the worker's Execute never starts before StartFetch has
\* returned the handle to the caller.
C14_ExecuteAfterHandle == main = "inStartFetch" => pc = "queued"

\* C14: while StartFetch has not returned the handle nothing is delivered
\* to the caller: no chunk, no progress record, no settlement, and the
\* worker is not destroyed.  (The transfer itself may already run.)
C14_NothingDeliveredBeforeHandle ==
  main = "inStartFetch" =>
    /\ seen = << >>
    /\ deferred_.resolved = 0
    /\ deferred_.rejected = 0
    /\ pc # "done"

C14_Witness ==
  /\ main = "inStartFetch"
  /\ pc = "executed"
  /\ tsfnData_ # << >>

\* C17: without streaming the caller gets either a complete Response or an
\* error, never both and never a partly filled Response: a rejection comes
\* with no Response and no body bytes, a Response carries the whole body.
C17_CompleteResponseOrError ==
  ~streaming_ =>
    /\ deferred_.resolved + deferred_.rejected <= 1
    /\ Chunks(seen) = << >>
    /\ deferred_.rejected > 0 => deferred_.res = NewResponseData
    /\ deferred_.resolved > 0 => /\ Len(deferred_.res.body) = net.total
                                 /\ deferred_.res.status = resp_.status
                                 /\ deferred_.res.headers = resp_.headers

C17_Witness ==
  /\ ~streaming_
  /\ deferred_.rejected = 1
  /\ Len(resp_.body) > 0
  /\ Len(resp_.body) < net.total

\* C20: a submit that is accepted queues its worker once and Execute runs
\* once for it; a submit refused for its url throws synchronously, queues
\* nothing and no Execute ever runs for it.
C20_OneExecutePerAcceptedSubmit ==
  /\ hist.threw => pc = "refused" /\ hist.queued = 0 /\ hist.executions = 0
  /\ pc = "refused" => /\ hist.threw
                       /\ deferred_.resolved = 0 /\ deferred_.rejected = 0
  /\ pc \notin {"new", "refused"} => hist.queued = 1 /\ hist.executions <= 1
  /\ pc \notin {"new", "refused", "queued"} => hist.executions = 1

C20_Witness ==
  /\ pc = "done"
  /\ hist.queued = 1
  /\ hist.executions = 1

\* the sample lines that are header lines, "name: value" with a name
HeaderFieldLines == { L_loc, L_xa, L_xb }

\* the lower-cased name and the value each of them carries
FieldName(l) ==
  CASE l = L_loc -> << "l", "o", "c" >>
    [] l = L_xa  -> << "x" >>
    [] l = L_xb  -> << "x" >>
    [] l = L_nk  -> << >>

FieldValue(l) ==
  CASE l = L_loc -> << "/", "b" >>
    [] l = L_xa  -> << "a" >>
    [] l = L_xb  -> << "b", " ", ":", "c" >>
    [] l = L_nk  -> << "a" >>

\* the values of the lines named k, in the order of the lines
RECURSIVE ValuesOf(_, _)
ValuesOf(k, lines) ==
  IF lines = << >> THEN << >>
  ELSE IF FieldName(Head(lines)) = k
       THEN << FieldValue(Head(lines)) >> \o ValuesOf(k, Tail(lines))
       ELSE ValuesOf(k, Tail(lines))

\* the number of values a header map holds under the names K
RECURSIVE CountValues(_, _)
CountValues(h, K) ==
  IF K = {} THEN 0
  ELSE LET k == CHOOSE x \in K : TRUE
       IN  Len(h[k]) + CountValues(h, K \ {k})

\* what came in is one status line followed by header lines only
IsHeaderBlock ==
  /\ Len(hist.lines) >= 1
  /\ IsStatusLine(hist.lines[1])
  /\ \A i \in 2..Len(hist.lines) : hist.lines[i] \in HeaderFieldLines

\* C18: after a block of one status line and N header lines the
\* accumulator holds N values in all, each under its lower-cased name, the
\* values of a name in the order they arrived.
C18_OneValuePerHeaderLine ==
  IsHeaderBlock =>
    LET fields == Tail(hist.lines)
    IN  /\ CountValues(resp_.headers, DOMAIN resp_.headers) = Len(fields)
        /\ DOMAIN resp_.headers = {FieldName(fields[i]) : i \in 1..Len(fields)}
        /\ \A k \in DOMAIN resp_.headers :
             resp_.headers[k] = ValuesOf(k, fields)

C18_Witness ==
  /\ hist.lines = << L_200, L_xa, L_loc, L_xb >>
  /\ resp_.headers[<< "x" >>] = << << "a" >>, << "b", " ", ":", "c" >> >>

(***************************************************************************)
(* The process-wide state (SpecLife).                                      *)
(***************************************************************************)
\* the workers that are inside the data of the share handle
InShare == {i \in Requests : wk[i].pc = "inshare"}

\* the workers that are somewhere in their transfer
InTransfer == {i \in Requests : wk[i].pc \in {"perform", "inshare"}}

\* C11: the share handle is safe under concurrent use: no two workers are
\* ever inside the shared cache data at the same time.
C11_SharedCacheMutualExclusion == Cardinality(InShare) <= 1

\* C12: the process-wide initialisation runs at most once, and the
\* process-wide teardown (share cleanup and global cleanup) runs at most
\* once.
C12_InitAndTeardownAtMostOnce ==
  /\ glob.inits <= 1
  /\ glob.shareCleanups <= 1
  /\ glob.cleanups <= 1

\* C13: no worker is in any part of a transfer before the process-wide
\* initialisation has completed or after the teardown has run, a worker in
\* flight when a cleanup hook runs included.
C13_TransferOnlyBetweenInitAndTeardown ==
  \A i \in InTransfer : glob.inits >= 1 /\ glob.cleanups = 0

\* C19: a token only moves from not aborted to aborted: once its own abort
\* function has run on the live worker it stays aborted, and the abort
\* function of one request never sets the token of another request.
C19_TokenMonotonicAndOwn ==
  \A i \in Requests :
    /\ (Live(wk[i]) /\ i \in wk[i].setBy) => wk[i].abort_
    /\ wk[i].setBy \subseteq {i}

(***************************************************************************)
(* The request (SpecReq).                                                  *)
(***************************************************************************)
\* the name of a header line: what precedes its first colon
LineName(l) ==
  SubSeq(l, 1, Min({i \in 1..Len(l) : l[i] = ":"}) - 1)

\* the lines Execute adds for the four default headers
DefaultLines == { D_UserAgent, D_AcceptEncoding, D_Connection, D_Expect }

\* the caller gave a header whose name equals that of line d, whatever the case
CallerGave(d) ==
  \E i \in 1..Len(req.opts.headers) :
    lower(req.opts.headers[i].k) = lower(LineName(d))

\* C15: a default header is in the request only if the caller gave no
\* header of that name in any casing: no request carries both.
C15_DefaultOnlyWithoutCallerHeader ==
  req.stage = "prepared" =>
    \A d \in DefaultLines :
      (\E i \in 1..Len(req.hdrs) : req.hdrs[i] = d) => ~CallerGave(d)

\* the first place at or after from where pat occurs in s, 0 if none
Find(s, pat, from) ==
  LET at == {i \in from..(Len(s) - Len(pat) + 1) : SubSeq(s, i, i + Len(pat) - 1) = pat}
  IN  IF at = {} THEN 0 ELSE Min(at)

\* s cut at every occurrence of pat
RECURSIVE SplitOn(_, _)
SplitOn(s, pat) ==
  LET i == Find(s, pat, 1)
  IN  IF i = 0 THEN << s >>
      ELSE << SubSeq(s, 1, i - 1) >> \o SplitOn(SubSeq(s, i + Len(pat), Len(s)), pat)

\* the name parameter of a part's Content-Disposition: the quoted string
\* after name=
PartName(part) ==
  LET p == Find(part, << "n", "a", "m", "e", "=", "\"" >>, 1)
      a == p + 6
      b == Find(part, Quote, a)
  IN  IF p = 0 \/ b = 0 THEN << "none" >> ELSE SubSeq(part, a, b - 1)

EndsWith(s, t) == Len(s) >= Len(t) /\ SubSeq(s, Len(s) - Len(t) + 1, Len(s)) = t

\* C16: the multipart body splits on the boundary into one part per field,
\* in the order of the fields, each part named as its key, and the body
\* ends with the closing marker.
C16_OnePartPerFieldNamedByKey ==
  (req.stage # "none" /\ req.useMultipart_) =>
    LET form == req.opts.formData[2]
        delim == Dashes \o req.multipartBoundary_
        segs == SplitOn(req.multipartBody_, delim)
    IN  /\ Len(segs) = Len(form) + 2
        /\ segs[1] = << >>
        /\ \A i \in 1..Len(form) : PartName(segs[i + 1]) = form[i].k
        /\ EndsWith(req.multipartBody_, delim \o Dashes \o CRLF)

\* the field value carries byte data: a buffer, or a descriptor whose
\* value, data or buffer is a buffer
CarriesBytes(v) ==
  \/ v.kind = "buffer"
  \/ /\ v.kind = "object"
     /\ \E p \in {"value", "data", "buffer"} \cap DOMAIN v.props :
          v.props[p].kind = "buffer"

\* the text of property p of a descriptor, dflt for a value without it
PropOr(v, p, dflt) ==
  IF v.kind = "object" /\ p \in DOMAIN v.props THEN v.props[p].text ELSE dflt

\* the part is a file part with that filename and that content type
IsFilePart(part, filename, contentType) ==
  /\ Find(part, S_filename \o filename \o Quote \o CRLF, 1) # 0
  /\ Find(part, CRLF \o S_type \o contentType \o CRLF \o CRLF, 1) # 0

\* C21: every field that carries byte data, of any length, zero included,
\* is encoded as a file part: filename is the descriptor's or blob, and the
\* part has a Content-Type line, the descriptor's or application/octet-stream.
C21_ByteFieldsAreFileParts ==
  (req.stage # "none" /\ req.useMultipart_) =>
    LET form == req.opts.formData[2]
        segs == SplitOn(req.multipartBody_, Dashes \o req.multipartBoundary_)
    IN  \A i \in 1..Len(form) :
          CarriesBytes(form[i].v) =>
            IsFilePart(segs[i + 1],
                       PropOr(form[i].v, "filename", S_blob),
                       PropOr(form[i].v, "contentType", S_octet))

(***************************************************************************)
(* Lines of every kind (SpecHdr).                                          *)
(***************************************************************************)
\* the lines that came in after the last status line
Hop ==
  LET from == IF StatusLineAt = {} THEN 0 ELSE Max(StatusLineAt)
  IN  SubSeq(hist.lines, from + 1, Len(hist.lines))

\* the status code and text the sample status lines carry
StatusOf(l) ==
  CASE l = L_302 -> [code |-> 302, text |-> << "F", "o", "u", "n", "d" >>]
    [] l = L_200 -> [code |-> 200, text |-> << >>]
    [] l = L_404 -> [code |-> 404, text |-> << "N", "o" >>]

\* the headers are the values of these lines, each under its name and in
\* the order of the lines, and the status is that of the last status line
HoldsExactly(fields) ==
  /\ DOMAIN resp_.headers = {FieldName(fields[i]) : i \in 1..Len(fields)}
  /\ \A k \in DOMAIN resp_.headers : resp_.headers[k] = ValuesOf(k, fields)
  /\ IF StatusLineAt = {}
     THEN resp_.status = 0 /\ resp_.statusText = << >>
     ELSE LET s == StatusOf(hist.lines[Max(StatusLineAt)])
          IN  resp_.status = s.code /\ resp_.statusText = s.text

\* C22 as stated: every line with a colon appends its value under its
\* key, a key that trims to empty included; a line without a colon changes
\* nothing.
C22_EveryColonLineAppends ==
  HoldsExactly(SelectSeq(Hop, LAMBDA l : l \in HeaderFieldLines \cup {L_nk}))

\* C22: every line with a colon and a key that does not trim to empty
\* appends its trimmed value under its lower-cased trimmed key; a line
\* whose key trims to empty, like a line without a colon, leaves headers,
\* status code and status text as they were.
C22_NamedLinesAppendOthersIgnored ==
  HoldsExactly(SelectSeq(Hop, LAMBDA l : l \in HeaderFieldLines))

C22_Witness ==
  /\ hist.lines = << L_404, L_xa, L_nk, L_nc >>
  /\ DOMAIN resp_.headers = { << "x" >> }
  /\ resp_.status = 404

(***************************************************************************)
(* The abort function and the worker's lifetime (Spec).                    *)
(***************************************************************************)
\* C23: abort() is safe at every point of the request's life: it never
\* reads or writes the cancellation flag of a worker that was destroyed
\* after its terminal outcome was delivered.
C23_AbortNeverTouchesDestroyedWorker == ~hist.freed

(***************************************************************************)
(* Termination (SpecFair).                                                 *)
(***************************************************************************)
\* the token was first set while the transfer was in flight
SetInFlight == hist.setAt \in {"perform", "inbody"}

\* the caller has the aborted failure
AbortedOutcome == deferred_.rejected = 1 /\ deferred_.msg = "request aborted"

\* C24: every request that was queued delivers a terminal outcome in the
\* end, and one whose token was set while the transfer was in flight ends
\* with the aborted outcome, with or without a progress consumer.
C24_EveryRequestEnds ==
  /\ (pc = "queued") ~> (pc = "done" /\ deferred_.resolved + deferred_.rejected = 1)
  /\ SetInFlight ~> AbortedOutcome

C24_Witness ==
  /\ SetInFlight
  /\ ~wantProgress_
  /\ hist.stoppedByToken
  /\ pc = "done"
  /\ AbortedOutcome

====
